---- MODULE Spec2Model ----
(***************************************************************************)
(* A model of the derive macros of proc-macro-workshop:                    *)
(*   - builder/src/lib.rs      #[derive(Builder)], annotation aware        *)
(*   - builder/src/builder.rs  build(), the annotation-free builder        *)
(*   - debug/src/lib.rs        #[derive(CustomDebug)]                      *)
(* A macro is a pure function from a declaration to a fragment; the model  *)
(* applies it to a declaration drawn from a bounded set and then runs the  *)
(* generated builder (builder(), setters, build()) or the generated fmt.   *)
(***************************************************************************)
EXTENDS Integers, Sequences, FiniteSets, TLC

VARIABLES
    macro,   \* which generator the declaration is handed to
    decl,    \* the DeriveInput
    pc,      \* "start" | "expanded" | "running" | "formatted" | "panicked"
    out,     \* the fragment the generator returned
    bld,     \* the generated builder's storage (per field an Option or a Vec,
             \* with its items), or the instance that fmt() is called on
    res,     \* what the latest call on the builder returned, if it was
             \* build(), or what fmt() wrote
    hist     \* history: what the caller passed to each setter method since
             \* builder(), in call order, how many build() calls were made
             \* and how many of them returned Ok, and what had been passed
             \* to the setters when build() last returned Err

vars == <<macro, decl, pc, out, bld, res, hist>>

(***************************************************************************)
(* Bounds.                                                                 *)
(***************************************************************************)
MaxFields == 2
MaxCalls == 4

Values == {"x", "y"}
Idents == <<"alpha", "beta", "gamma", "delta">>

(***************************************************************************)
(* syn::Type, as far as the macros look into it: a path type with the      *)
(* idents of its segments and the angle-bracketed type arguments of its    *)
(* first segment, or any other type (reference, tuple, array, ...).        *)
(***************************************************************************)
Plain(segs) == [kind |-> "Path", segs |-> segs, angle |-> FALSE, args |-> <<>>]
Generic(name, args) == [kind |-> "Path", segs |-> <<name>>, angle |-> TRUE, args |-> args]
TyOther == [kind |-> "Other", segs |-> <<>>, angle |-> FALSE, args |-> <<>>]

TString == Plain(<<"String">>)
TOptString == Generic("Option", <<TString>>)
TVecString == Generic("Vec", <<TString>>)
TOptVecString == Generic("Option", <<TVecString>>)
TOptOptString == Generic("Option", <<TOptString>>)
TArray == TyOther
TOptArray == Generic("Option", <<TArray>>)

(***************************************************************************)
(* syn::Attribute with the outcome of parse_meta(): Meta::Word,            *)
(* Meta::List(nested), Meta::NameValue(lit), or a parse error.             *)
(***************************************************************************)
NoLit == [kind |-> "None", value |-> ""]
StrLit(s) == [kind |-> "Str", value |-> s]
NestedNameValue(id, s) == [kind |-> "NameValue", ident |-> id, lit |-> StrLit(s)]
NestedWord(id) == [kind |-> "Word", ident |-> id, lit |-> NoLit]
AttrList(p, nested) == [path |-> p, meta |-> "List", nested |-> nested, lit |-> NoLit]
AttrNameValue(p, s) == [path |-> p, meta |-> "NameValue", nested |-> <<>>, lit |-> StrLit(s)]
AttrWord(p) == [path |-> p, meta |-> "Word", nested |-> <<>>, lit |-> NoLit]
AttrErr(p) == [path |-> p, meta |-> "Err", nested |-> <<>>, lit |-> NoLit]

Each(s) == AttrList("builder", <<NestedNameValue("each", s)>>)
Eachh(s) == AttrList("builder", <<NestedNameValue("eachh", s)>>)
EachOther(s) == AttrList("builder", <<NestedNameValue("each", s), NestedNameValue("other", "y")>>)
OtherEach(s) == AttrList("builder", <<NestedNameValue("other", "y"), NestedNameValue("each", s)>>)
BuilderWord == AttrWord("builder")
BuilderGarbage == AttrErr("builder")
DocAttr == AttrNameValue("doc", "text")

(***************************************************************************)
(* Field samples of the builder macros: [ty, attrs].                       *)
(***************************************************************************)
BuilderFieldSamples ==
    { [ty |-> TString, attrs |-> <<>>],
      [ty |-> TOptString, attrs |-> <<>>],
      [ty |-> TOptVecString, attrs |-> <<>>],
      [ty |-> TOptOptString, attrs |-> <<>>],
      [ty |-> TVecString, attrs |-> <<Each("arg")>>],
      [ty |-> TOptString, attrs |-> <<Each("arg")>>],
      [ty |-> TVecString, attrs |-> <<Eachh("arg")>>],
      [ty |-> TVecString, attrs |-> <<EachOther("arg")>>],
      [ty |-> TVecString, attrs |-> <<OtherEach("arg")>>],
      [ty |-> TVecString, attrs |-> <<BuilderWord>>],
      [ty |-> TVecString, attrs |-> <<BuilderGarbage>>],
      [ty |-> TArray, attrs |-> <<>>] }

\* builder.rs reads no attribute, and nothing registers one for it.
SimpleFieldSamples ==
    { [ty |-> TString, attrs |-> <<>>],
      [ty |-> TVecString, attrs |-> <<>>],
      [ty |-> TOptString, attrs |-> <<>>],
      [ty |-> TOptVecString, attrs |-> <<>>],
      [ty |-> TOptOptString, attrs |-> <<>>],
      [ty |-> TOptArray, attrs |-> <<>>],
      [ty |-> TArray, attrs |-> <<>>] }

FieldAt(i, s) == [ident |-> Idents[i], ty |-> s.ty, attrs |-> s.attrs]

\* All field lists of length n over a sample set, named by position.
RECURSIVE FieldLists(_, _)
FieldLists(n, samples) ==
    IF n = 0 THEN { <<>> }
    ELSE { Append(fs, FieldAt(n, s)) : fs \in FieldLists(n - 1, samples), s \in samples }

NamedStructs(samples) ==
    UNION { { [shape |-> "named", ident |-> "S", generics |-> <<>>, attrs |-> <<>>, fields |-> fs]
              : fs \in FieldLists(n, samples) } : n \in 1..MaxFields }

\* Tuple structs keep their (unnamed) fields; unit structs, enums and unions
\* have no field list the macros could read.
Unsupported ==
    { [shape |-> sh, ident |-> "S", generics |-> <<>>, attrs |-> <<>>,
       fields |-> IF sh = "tuple" THEN <<[ident |-> "", ty |-> TString, attrs |-> <<>>]>> ELSE <<>>]
      : sh \in {"tuple", "unit", "enum", "union"} }

(***************************************************************************)
(* Helpers over sequences.                                                 *)
(***************************************************************************)
Range(s) == { s[i] : i \in DOMAIN s }

RECURSIVE SelectSeqBy(_, _)
\* Iterator::filter(...).collect(): the elements whose index is in keep, in order.
SelectSeqBy(s, keep) ==
    IF s = <<>> THEN <<>>
    ELSE LET n == Len(s)
             front == SelectSeqBy(SubSeq(s, 1, n - 1), keep)
         IN IF n \in keep THEN Append(front, s[n]) ELSE front

OptionOf(ty) == Generic("Option", <<ty>>)

(***************************************************************************)
(* builder/src/lib.rs: #[derive(Builder)].                                 *)
(* A function that can panic (unimplemented!(), unreachable!(), an index   *)
(* out of bounds) comes with a predicate ..._panics telling when it does.  *)
(***************************************************************************)
IsOptionTy(ty) == ty.kind = "Path" /\ ty.segs[1] = "Option"

fetch_optional_fields_panics(fields) ==
    \E i \in DOMAIN fields : fields[i].ty.kind # "Path"

fetch_optional_fields(fields) ==
    SelectSeqBy(fields, { i \in DOMAIN fields : IsOptionTy(fields[i].ty) })

HasBuilderAttr(f) ==
    Len(f.attrs) > 0 /\ \E k \in DOMAIN f.attrs : f.attrs[k].path = "builder"

\* One attribute inside field.attrs.iter().all(..): "true", "false" or "panic".
BuilderAttrCheck(attr) ==
    IF attr.meta = "Err" THEN "true"
    ELSE IF attr.meta # "List" THEN "panic"
    ELSE IF attr.nested = <<>> THEN "panic"
    ELSE IF attr.nested[1].kind # "NameValue" THEN "panic"
    ELSE IF attr.nested[1].ident # "each" THEN "false"
    ELSE "true"

RECURSIVE BuilderAttrsAll(_)
\* Iterator::all over the attributes, in order, stopping at the first false.
BuilderAttrsAll(attrs) ==
    IF attrs = <<>> THEN "true"
    ELSE LET c == BuilderAttrCheck(Head(attrs))
         IN IF c = "true" THEN BuilderAttrsAll(Tail(attrs)) ELSE c

AnnotatedFields(fields) ==
    SelectSeqBy(fields, { i \in DOMAIN fields : HasBuilderAttr(fields[i]) })

fetch_builder_fields_panics(fields) ==
    \E i \in DOMAIN fields :
        HasBuilderAttr(fields[i]) /\ BuilderAttrsAll(fields[i].attrs) = "panic"

\* Option<Vec<Field>>: some = FALSE is None.
fetch_builder_fields(fields) ==
    LET annotated == AnnotatedFields(fields)
        filtered == SelectSeqBy(annotated,
                        { i \in DOMAIN annotated : BuilderAttrsAll(annotated[i].attrs) = "true" })
    IN IF Len(annotated) # Len(filtered)
       THEN [some |-> FALSE, v |-> <<>>]
       ELSE [some |-> TRUE, v |-> annotated]

get_inner_type_panics(field) ==
    \/ field.ty.kind # "Path"
    \/ ~field.ty.angle
    \/ field.ty.args = <<>>

get_inner_type(field) == field.ty.args[1]

ParsedAttrs(field) ==
    SelectSeqBy(field.attrs, { k \in DOMAIN field.attrs : field.attrs[k].meta # "Err" })

get_attr_ident_panics(field) ==
    /\ Len(field.attrs) > 0
    /\ LET parsed == ParsedAttrs(field)
       IN \/ parsed = <<>>
          \/ parsed[1].meta # "List"
          \/ parsed[1].nested = <<>>
          \/ parsed[1].nested[1].kind # "NameValue"
          \/ parsed[1].nested[1].lit.kind # "Str"

get_attr_ident(field) ==
    IF Len(field.attrs) > 0
    THEN ParsedAttrs(field)[1].nested[1].lit.value
    ELSE field.ident

expand_builder_initializer(fields, builder_fields) ==
    [i \in DOMAIN fields |->
        IF fields[i] \in Range(builder_fields)
        THEN [ident |-> fields[i].ident, init |-> "new", ty |-> fields[i].ty]
        ELSE [ident |-> fields[i].ident, init |-> "None", ty |-> fields[i].ty]]

\* expand_builder_fields, wrapping every field in Option.
expand_builder_fields_all_wrapped(fields, optional_fields, builder_fields) ==
    [i \in DOMAIN fields |-> [ident |-> fields[i].ident, ty |-> OptionOf(fields[i].ty)]]

expand_builder_fields(fields, optional_fields, builder_fields) ==
    [i \in DOMAIN fields |->
        IF fields[i] \in Range(optional_fields) \/ fields[i] \in Range(builder_fields)
        THEN [ident |-> fields[i].ident, ty |-> fields[i].ty]
        ELSE [ident |-> fields[i].ident, ty |-> OptionOf(fields[i].ty)]]

expand_builder_setters_panics(fields, optional_fields, builder_fields) ==
    \E i \in DOMAIN fields :
        IF fields[i] \in Range(optional_fields)
        THEN get_inner_type_panics(fields[i])
        ELSE IF fields[i] \in Range(builder_fields)
        THEN get_attr_ident_panics(fields[i]) \/ get_inner_type_panics(fields[i])
        ELSE FALSE

\* builder_setter, naming the setter of an annotated field after the field
\* instead of after the annotation's literal.
builder_setter_field_name(f, optional_fields, builder_fields) ==
    IF f \in Range(optional_fields)
    THEN [name |-> f.ident, ty |-> get_inner_type(f), body |-> "set_some", target |-> f.ident]
    ELSE IF f \in Range(builder_fields)
    THEN [name |-> f.ident, ty |-> get_inner_type(f), body |-> "push", target |-> f.ident]
    ELSE [name |-> f.ident, ty |-> f.ty, body |-> "set_some", target |-> f.ident]

\* A setter: fn name(&mut self, _: ty) with body "set_some" (self.target =
\* Some(v)) or "push" (self.target.push(v)).
builder_setter(f, optional_fields, builder_fields) ==
    IF f \in Range(optional_fields)
    THEN [name |-> f.ident, ty |-> get_inner_type(f), body |-> "set_some", target |-> f.ident]
    ELSE IF f \in Range(builder_fields)
    THEN [name |-> get_attr_ident(f), ty |-> get_inner_type(f), body |-> "push", target |-> f.ident]
    ELSE [name |-> f.ident, ty |-> f.ty, body |-> "set_some", target |-> f.ident]

expand_builder_setters(fields, optional_fields, builder_fields) ==
    [i \in DOMAIN fields |-> builder_setter(fields[i], optional_fields, builder_fields)]

\* The is_none() checks of build(), in declaration order (the other fields
\* contribute an empty quote!{}).
required_fields_none_check(fields, optional_fields, builder_fields) ==
    LET req == SelectSeqBy(fields, { i \in DOMAIN fields :
                   fields[i] \notin Range(optional_fields) /\ fields[i] \notin Range(builder_fields) })
    IN [i \in DOMAIN req |-> [ident |-> req[i].ident, fail |-> "err", msg_field |-> req[i].ident]]

field_assignment(f, optional_fields, builder_fields) ==
    IF f \in Range(optional_fields) THEN [ident |-> f.ident, expr |-> "take"]
    ELSE IF f \in Range(builder_fields) THEN [ident |-> f.ident, expr |-> "drain_collect"]
    ELSE [ident |-> f.ident, expr |-> "take_unwrap"]

expand_builder_build_fn(fields, optional_fields, builder_fields) ==
    [present |-> TRUE,
     checks |-> required_fields_none_check(fields, optional_fields, builder_fields),
     assigns |-> [i \in DOMAIN fields |-> field_assignment(fields[i], optional_fields, builder_fields)]]

\* The fragments a generator can return.
Fragment(kind, initializer, fields, setters, build_fn) ==
    [kind |-> kind, initializer |-> initializer, fields |-> fields,
     setters |-> setters, has_build |-> build_fn.present,
     checks |-> build_fn.checks, assigns |-> build_fn.assigns]
NoBuildFn == [present |-> FALSE, checks |-> <<>>, assigns |-> <<>>]
PanicFragment == Fragment("panic", <<>>, <<>>, <<>>, NoBuildFn)
CompileError == Fragment("compile_error", <<>>, <<>>, <<>>, NoBuildFn)
EmptyFragment == Fragment("empty", <<>>, <<>>, <<>>, NoBuildFn)

builder_derive(d) ==
    IF d.shape \in {"enum", "union"} THEN PanicFragment
    ELSE IF d.shape # "named" THEN Fragment("code", <<>>, <<>>, <<>>, NoBuildFn)
    ELSE IF fetch_optional_fields_panics(d.fields) THEN PanicFragment
    ELSE IF fetch_builder_fields_panics(d.fields) THEN PanicFragment
    ELSE LET optional_fields == fetch_optional_fields(d.fields)
             bf == fetch_builder_fields(d.fields)
         IN IF ~bf.some THEN CompileError
            ELSE IF expand_builder_setters_panics(d.fields, optional_fields, bf.v) THEN PanicFragment
            ELSE Fragment("code",
                          expand_builder_initializer(d.fields, bf.v),
                          expand_builder_fields(d.fields, optional_fields, bf.v),
                          expand_builder_setters(d.fields, optional_fields, bf.v),
                          expand_builder_build_fn(d.fields, optional_fields, bf.v))

(***************************************************************************)
(* builder/src/builder.rs: build(), which reads no annotation.             *)
(* handle_option! picks, per field, its first closure (an Option<path      *)
(* type> field), its second (any other path type) or nothing.              *)
(***************************************************************************)
handle_option(field) ==
    IF field.ident # "" /\ field.ty.kind = "Path"
    THEN IF field.ty.segs[1] = "Option"
         THEN IF field.ty.angle /\ field.ty.args[1].kind = "Path" THEN "stmt1" ELSE "none"
         ELSE "stmt2"
    ELSE "none"

Handled(fields) ==
    SelectSeqBy(fields, { i \in DOMAIN fields : handle_option(fields[i]) # "none" })

\* path.segments[0].ident of the Option's argument, quoted as a type.
InnerHead(field) == Plain(<<field.ty.args[1].segs[1]>>)

handle_for_setters(f) ==
    IF handle_option(f) = "stmt1"
    THEN [name |-> f.ident, ty |-> InnerHead(f), body |-> "set_some", target |-> f.ident]
    ELSE [name |-> f.ident, ty |-> f.ty, body |-> "set_some", target |-> f.ident]

extract_setter(fields) ==
    LET h == Handled(fields) IN [i \in DOMAIN h |-> handle_for_setters(h[i])]

handle_for_fields(f) ==
    IF handle_option(f) = "stmt1"
    THEN [ident |-> f.ident, ty |-> OptionOf(InnerHead(f))]
    ELSE [ident |-> f.ident, ty |-> OptionOf(f.ty)]

extract_fields(fields) ==
    LET h == Handled(fields) IN [i \in DOMAIN h |-> handle_for_fields(h[i])]

handle_for_build(f) ==
    IF handle_option(f) = "stmt1"
    THEN [ident |-> f.ident, expr |-> "clone"]
    ELSE [ident |-> f.ident, expr |-> "clone_unwrap"]

extract_builder_fields(fields) ==
    LET h == Handled(fields) IN [i \in DOMAIN h |-> handle_for_build(h[i])]

\* #[derive(Default)] on the builder: builder() is Builder::default().
DefaultInitializer(storage) ==
    [i \in DOMAIN storage |-> [ident |-> storage[i].ident, init |-> "default", ty |-> storage[i].ty]]

impl_struct(d) ==
    LET storage == extract_fields(d.fields)
    IN Fragment("code", DefaultInitializer(storage), storage, extract_setter(d.fields),
                [present |-> TRUE, checks |-> <<>>, assigns |-> extract_builder_fields(d.fields)])

build(d) ==
    IF d.shape \in {"named", "tuple", "unit"} THEN impl_struct(d) ELSE EmptyFragment

(***************************************************************************)
(* debug/src/lib.rs: #[derive(CustomDebug)].                               *)
(***************************************************************************)
TParam(t) == Plain(<<t>>)
TAssoc(t, a) == Plain(<<t, a>>)
TPhantom(t) == Generic("PhantomData", <<TParam(t)>>)
TVecOf(ty) == Generic("Vec", <<ty>>)

DebugFormat(s) == AttrNameValue("debug", s)
DebugList == AttrList("debug", <<NestedWord("fmt")>>)
DebugBound(s) == AttrList("debug", <<NestedNameValue("bound", s)>>)
OtherBound(s) == AttrList("serde", <<NestedNameValue("bound", s)>>)

DebugFieldSamples ==
    { [ty |-> TParam("T"), attrs |-> <<>>],
      [ty |-> TParam("U"), attrs |-> <<>>],
      [ty |-> TPhantom("T"), attrs |-> <<>>],
      [ty |-> TVecOf(TAssoc("T", "Value")), attrs |-> <<>>],
      [ty |-> TVecOf(TAssoc("T", "Other")), attrs |-> <<>>],
      [ty |-> TAssoc("T", "Value"), attrs |-> <<>>],
      [ty |-> TString, attrs |-> <<DebugFormat("0b{:08b}")>>],
      [ty |-> TString, attrs |-> <<DebugList>>] }

DebugDeclAttrs ==
    { <<>>,
      <<DebugBound("T::Value: Debug")>>,
      <<OtherBound("T: Serialize")>>,
      <<DocAttr, DebugBound("T::Value: Debug")>> }

DebugStructs ==
    { [d EXCEPT !.generics = <<"T", "U">>, !.attrs = a]
      : d \in NamedStructs(DebugFieldSamples), a \in DebugDeclAttrs }

\* LitStr::parse::<syn::WherePredicate>(): the text up to the first ':' is the
\* bounded type and the rest the bounds; a text without ':' does not parse.
WherePredicates ==
    { [text |-> "T::Value: Debug", bounded |-> TAssoc("T", "Value"), bound |-> "Debug"],
      [text |-> "T: Serialize", bounded |-> TParam("T"), bound |-> "Serialize"] }

ParsesAsWherePredicate(s) == \E w \in WherePredicates : w.text = s
ParseWherePredicate(s) == CHOOSE w \in WherePredicates : w.text = s

collect_phantom_data(fields) ==
    { fields[i].ty.args[1].segs[1] :
        i \in { j \in DOMAIN fields :
                  /\ fields[j].ty.kind = "Path"
                  /\ fields[j].ty.segs[1] = "PhantomData"
                  /\ fields[j].ty.angle
                  /\ fields[j].ty.args[1].kind = "Path" } }

\* f.attrs.iter().find(|a| a.path.is_ident("debug")): its index, 0 for none.
FindDebugAttr(f) ==
    IF \E k \in DOMAIN f.attrs : f.attrs[k].path = "debug"
    THEN CHOOSE k \in DOMAIN f.attrs :
            /\ f.attrs[k].path = "debug"
            /\ \A j \in 1..(k - 1) : f.attrs[j].path # "debug"
    ELSE 0

\* Result<HashMap<Ident, Lit>, TokenStream>: ok = FALSE is Err.
collect_fields_format(fields) ==
    LET with == { i \in DOMAIN fields : FindDebugAttr(fields[i]) # 0 }
        attr(i) == fields[i].attrs[FindDebugAttr(fields[i])]
    IN IF \E i \in with : attr(i).meta # "NameValue"
       THEN [ok |-> FALSE, map |-> <<>>]
       ELSE [ok |-> TRUE,
             map |-> [id \in { fields[i].ident : i \in with } |->
                        LET i == CHOOSE j \in with : fields[j].ident = id IN attr(i).lit]]

\* debug_field, never looking the field up in the attribute map.
debug_field_default_only(f, attribute_fields) ==
    [name |-> f.ident, fmt |-> "", arg |-> f.ident]

\* One .field(name, ..) call: fmt is the format string, or "" for &self.ident.
debug_field(f, attribute_fields) ==
    IF f.ident \in DOMAIN attribute_fields
    THEN [name |-> f.ident, fmt |-> attribute_fields[f.ident].value, arg |-> f.ident]
    ELSE [name |-> f.ident, fmt |-> "", arg |-> f.ident]

format_debug_fields(fields, attribute_fields) ==
    [i \in DOMAIN fields |-> debug_field(fields[i], attribute_fields)]

\* The fields that contribute (T, T::Assoc) to the map.
AssocFields(fields) ==
    { i \in DOMAIN fields :
        /\ fields[i].ty.kind = "Path"
        /\ fields[i].ty.angle
        /\ fields[i].ty.args[1].kind = "Path"
        /\ Len(fields[i].ty.args[1].segs) >= 2 }

\* HashMap<Ident, TypePath>: collecting keeps, per key, the last entry.
collect_associated_types(fields) ==
    LET af == AssocFields(fields)
        key(i) == fields[i].ty.args[1].segs[1]
    IN [k \in { key(i) : i \in af } |->
          LET last == CHOOSE i \in af : key(i) = k /\ \A j \in af : key(j) = k => j <= i
          IN fields[last].ty.args[1]]

ParsedDeclAttrs(attrs) ==
    SelectSeqBy(attrs, { k \in DOMAIN attrs : attrs[k].meta # "Err" })

collect_custom_bound_attr_panics(attrs) ==
    LET parsed == ParsedDeclAttrs(attrs)
    IN parsed # <<>> /\ parsed[1].meta = "List" /\ parsed[1].nested = <<>>

\* Option<WherePredicate>: some = FALSE is None.
collect_custom_bound_attr(attrs) ==
    LET parsed == ParsedDeclAttrs(attrs)
        none == [some |-> FALSE, text |-> ""]
    IN IF parsed = <<>> THEN none
       ELSE IF parsed[1].meta # "List" THEN none
       ELSE IF parsed[1].nested[1].kind # "NameValue" THEN none
       ELSE IF parsed[1].nested[1].lit.kind # "Str" THEN none
       ELSE IF ~ParsesAsWherePredicate(parsed[1].nested[1].lit.value) THEN none
       ELSE [some |-> TRUE, text |-> ParseWherePredicate(parsed[1].nested[1].lit.value).text]

DebugFragment(kind, name, entries, bounds, assoc, custom) ==
    [kind |-> kind, name |-> name, entries |-> entries,
     bounds |-> bounds, assoc_preds |-> assoc, custom_preds |-> custom]
DebugPanic == DebugFragment("panic", "", <<>>, {}, {}, {})
DebugCompileError == DebugFragment("compile_error", "", <<>>, {}, {}, {})

\* The type parameters that get `: std::fmt::Debug` pushed onto their bounds.
debug_bounds(generics, phantom_data, associated_types, handwritten_type) ==
    { generics[i] : i \in { j \in DOMAIN generics :
        /\ generics[j] \notin phantom_data
        /\ generics[j] \notin DOMAIN associated_types
        /\ ~handwritten_type.some } }

\* The `<assoc type>: std::fmt::Debug` predicates pushed onto the where clause.
debug_assoc_preds(associated_types) ==
    { associated_types[k] : k \in DOMAIN associated_types }

debug_custom_preds(handwritten_type) ==
    IF handwritten_type.some THEN { handwritten_type.text } ELSE {}

debug_derive(d) ==
    IF d.shape # "named" THEN DebugPanic
    ELSE LET phantom_data == collect_phantom_data(d.fields)
             attribute_fields == collect_fields_format(d.fields)
             associated_types == collect_associated_types(d.fields)
         IN IF ~attribute_fields.ok THEN DebugCompileError
            ELSE IF collect_custom_bound_attr_panics(d.attrs) THEN DebugPanic
            ELSE LET handwritten_type == collect_custom_bound_attr(d.attrs)
                 IN DebugFragment("code", d.ident,
                        format_debug_fields(d.fields, attribute_fields.map),
                        debug_bounds(d.generics, phantom_data, associated_types, handwritten_type),
                        debug_assoc_preds(associated_types),
                        debug_custom_preds(handwritten_type))

(***************************************************************************)
(* What rustc accepts of a generated builder, as far as the templates can  *)
(* go wrong: the storage types exist, every expression has the type of the *)
(* place it is put in, and the struct literal names every field once.      *)
(***************************************************************************)
RECURSIVE WellFormed(_)
WellFormed(ty) ==
    \/ ty.kind = "Other"
    \/ /\ ty.kind = "Path"
       /\ ty.segs[1] \in {"Option", "Vec"} => (ty.angle /\ Len(ty.args) = 1)
       /\ \A k \in DOMAIN ty.args : WellFormed(ty.args[k])

InitTypeOk(init, ty) ==
    CASE init = "new" -> ty.kind = "Path" /\ ty.segs[1] = "Vec"
      [] init = "None" -> IsOptionTy(ty)
      [] OTHER -> TRUE

SetterTypeOk(setter, ty) ==
    IF setter.body = "push" THEN ty = Generic("Vec", <<setter.ty>>) ELSE ty = OptionOf(setter.ty)

\* The type of a build() expression over storage of type ty (TyOther with an
\* empty path: no type).
NoType == Plain(<<>>)
AssignType(expr, ty) ==
    CASE expr \in {"take", "clone"} -> IF IsOptionTy(ty) THEN ty ELSE NoType
      [] expr \in {"take_unwrap", "clone_unwrap"} -> IF IsOptionTy(ty) THEN ty.args[1] ELSE NoType
      [] OTHER -> IF ty.kind = "Path" /\ ty.segs[1] = "Vec" THEN ty ELSE NoType

Compiles(d, o) ==
    /\ o.kind = "code"
    /\ Len(o.initializer) = Len(o.fields) /\ Len(o.setters) = Len(o.fields)
    /\ \A i \in DOMAIN o.fields :
          /\ WellFormed(o.fields[i].ty)
          /\ o.initializer[i].ident = o.fields[i].ident
          /\ InitTypeOk(o.initializer[i].init, o.fields[i].ty)
          /\ o.setters[i].target = o.fields[i].ident
          /\ SetterTypeOk(o.setters[i], o.fields[i].ty)
    /\ \A i, j \in DOMAIN o.setters : o.setters[i].name = o.setters[j].name => i = j
    /\ o.has_build =>
          /\ Len(o.assigns) = Len(d.fields) /\ Len(o.assigns) = Len(o.fields)
          /\ \A i \in DOMAIN o.assigns :
                /\ o.assigns[i].ident = d.fields[i].ident
                /\ o.assigns[i].ident = o.fields[i].ident
                /\ AssignType(o.assigns[i].expr, o.fields[i].ty) = d.fields[i].ty
          /\ \A i \in DOMAIN o.checks :
                \E j \in DOMAIN o.fields :
                    o.fields[j].ident = o.checks[i].ident /\ IsOptionTy(o.fields[j].ty)

(***************************************************************************)
(* The generated builder at run time.                                      *)
(***************************************************************************)
NoResult == [kind |-> "none", value |-> <<>>, msg_field |-> ""]
NoHist == [log |-> <<>>, builds |-> 0, oks |-> 0, kept |-> <<>>]

SetterNames(o) == { o.setters[i].name : i \in DOMAIN o.setters }
StorageIdents(o) == { o.fields[i].ident : i \in DOMAIN o.fields }

RECURSIVE SumLen(_, _)
SumLen(f, ids) ==
    IF ids = {} THEN 0
    ELSE LET id == CHOOSE x \in ids : TRUE IN Len(f[id]) + SumLen(f, ids \ {id})

CallsMade == SumLen(hist.log, DOMAIN hist.log) + hist.builds

None == [shape |-> "option", items |-> <<>>]
Some(v) == [shape |-> "option", items |-> <<v>>]
EmptyVec == [shape |-> "vec", items |-> <<>>]

\* What builder() puts into a storage field: <ty>::new(), None, or the
\* Default of the storage type.
InitValue(i) ==
    CASE i.init = "new" -> EmptyVec
      [] i.init = "None" -> None
      [] OTHER -> IF IsOptionTy(i.ty) THEN None ELSE EmptyVec

RunBuilderFn(o) ==
    [id \in StorageIdents(o) |->
        InitValue(o.initializer[CHOOSE i \in DOMAIN o.initializer : o.initializer[i].ident = id])]

\* The body of a generated setter.
RunSetter(setter, b, v) ==
    IF setter.body = "push"
    THEN [b EXCEPT ![setter.target] = [shape |-> "vec", items |-> Append(@.items, v)]]
    ELSE [b EXCEPT ![setter.target] = Some(v)]

\* The first is_none() check of build() that fires: its index, 0 for none.
FirstFailingCheck(checks, b) ==
    IF \E i \in DOMAIN checks : b[checks[i].ident] = None
    THEN CHOOSE i \in DOMAIN checks :
            /\ b[checks[i].ident] = None
            /\ \A j \in 1..(i - 1) : b[checks[j].ident] # None
    ELSE 0

\* One field expression of the struct literal in build().
AssignPanics(a, b) == a.expr \in {"take_unwrap", "clone_unwrap"} /\ b[a.ident] = None
AssignValue(a, b) ==
    CASE a.expr \in {"take", "clone"} -> b[a.ident]
      [] a.expr \in {"take_unwrap", "clone_unwrap"} -> [shape |-> "plain", items |-> b[a.ident].items]
      [] OTHER -> [shape |-> "vec", items |-> b[a.ident].items]
AssignStorage(a, b) ==
    CASE a.expr \in {"clone", "clone_unwrap"} -> b
      [] a.expr \in {"take", "take_unwrap"} -> [b EXCEPT ![a.ident] = None]
      [] OTHER -> [b EXCEPT ![a.ident] = EmptyVec]

RECURSIVE RunAssigns(_, _, _)
\* The field expressions in order; a panic leaves the storage as it is then.
RunAssigns(assigns, b, acc) ==
    IF assigns = <<>> THEN [kind |-> "ok", b |-> b, value |-> acc]
    ELSE LET a == Head(assigns)
         IN IF AssignPanics(a, b) THEN [kind |-> "panic", b |-> b, value |-> <<>>]
            ELSE RunAssigns(Tail(assigns), AssignStorage(a, b),
                            acc @@ (a.ident :> AssignValue(a, b)))

\* RunBuild, emptying the storage before it reports a missing field.
RunBuild_taking_first(o, b) ==
    LET c == FirstFailingCheck(o.checks, b)
    IN IF c # 0
       THEN [kind |-> o.checks[c].fail,
             b |-> [id \in DOMAIN b |-> IF b[id].shape = "vec" THEN EmptyVec ELSE None],
             value |-> <<>>, msg_field |-> o.checks[c].msg_field]
       ELSE LET r == RunAssigns(o.assigns, b, <<>>)
            IN [kind |-> r.kind, b |-> r.b, value |-> r.value, msg_field |-> ""]

RunBuild(o, b) ==
    LET c == FirstFailingCheck(o.checks, b)
    IN IF c # 0
       THEN [kind |-> o.checks[c].fail, b |-> b, value |-> <<>>, msg_field |-> o.checks[c].msg_field]
       ELSE LET r == RunAssigns(o.assigns, b, <<>>)
            IN [kind |-> r.kind, b |-> r.b, value |-> r.value, msg_field |-> ""]

(***************************************************************************)
(* The state machine.                                                      *)
(***************************************************************************)
Macros == {"Builder", "build", "CustomDebug"}

DeclsFor(m) ==
    CASE m = "Builder" -> NamedStructs(BuilderFieldSamples) \cup Unsupported
      [] m = "build" -> NamedStructs(SimpleFieldSamples) \cup Unsupported
      [] OTHER -> DebugStructs \cup Unsupported

NoFragment == [kind |-> "none"]

Init ==
    /\ macro \in Macros
    /\ decl \in DeclsFor(macro)
    /\ pc = "start"
    /\ out = NoFragment
    /\ bld = <<>>
    /\ res = NoResult
    /\ hist = NoHist

Expand(m, fragment) ==
    /\ pc = "start"
    /\ macro = m
    /\ out' = fragment
    /\ pc' = IF fragment.kind = "panic" THEN "panicked" ELSE "expanded"
    /\ UNCHANGED <<macro, decl, bld, res, hist>>

DeriveBuilder == Expand("Builder", builder_derive(decl))
BuildBuilder == Expand("build", build(decl))
DeriveDebug == Expand("CustomDebug", debug_derive(decl))

CallBuilder ==
    /\ pc = "expanded"
    /\ macro \in {"Builder", "build"}
    /\ Compiles(decl, out)
    /\ bld' = RunBuilderFn(out)
    /\ hist' = [log |-> [name \in SetterNames(out) |-> <<>>], builds |-> 0, oks |-> 0, kept |-> <<>>]
    /\ pc' = "running"
    /\ UNCHANGED <<macro, decl, out, res>>

CallSetter ==
    /\ pc = "running"
    /\ CallsMade < MaxCalls
    /\ \E i \in DOMAIN out.setters, v \in Values :
          /\ bld' = RunSetter(out.setters[i], bld, v)
          /\ hist' = [hist EXCEPT !.log[out.setters[i].name] = Append(@, v)]
    /\ res' = NoResult
    /\ UNCHANGED <<macro, decl, pc, out>>

CallBuild ==
    /\ pc = "running"
    /\ out.has_build
    /\ CallsMade < MaxCalls
    /\ LET r == RunBuild(out, bld)
       IN /\ res' = [kind |-> r.kind, value |-> r.value, msg_field |-> r.msg_field]
          /\ bld' = r.b
          /\ pc' = IF r.kind = "panic" THEN "panicked" ELSE "running"
          /\ hist' = [hist EXCEPT !.builds = @ + 1,
                                   !.oks = IF r.kind = "ok" THEN @ + 1 ELSE @,
                                   !.kept = IF r.kind = "err" THEN hist.log ELSE @]
    /\ UNCHANGED <<macro, decl, out>>

\* fmt() of the generated Debug impl on an instance: debug_struct(name), then
\* the .field(..) calls in order.
CallFmt ==
    /\ pc = "expanded"
    /\ macro = "CustomDebug"
    /\ out.kind = "code"
    /\ \E self \in [{ decl.fields[i].ident : i \in DOMAIN decl.fields } -> Values] :
          /\ bld' = self
          /\ res' = [kind |-> "fmt", name |-> out.name,
                     value |-> [i \in DOMAIN out.entries |->
                                  [name |-> out.entries[i].name,
                                   fmt |-> out.entries[i].fmt,
                                   arg |-> self[out.entries[i].arg]]],
                     msg_field |-> ""]
    /\ pc' = "formatted"
    /\ UNCHANGED <<macro, decl, out, hist>>

Next ==
    \/ DeriveBuilder
    \/ BuildBuilder
    \/ DeriveDebug
    \/ CallBuilder
    \/ CallSetter
    \/ CallBuild
    \/ CallFmt

Spec == Init /\ [][Next]_vars

(***************************************************************************)
(* The vocabulary of the specification, defined on the declaration alone.  *)
(***************************************************************************)
IsEachAttr(a) ==
    /\ a.path = "builder" /\ a.meta = "List" /\ Len(a.nested) = 1
    /\ a.nested[1].kind = "NameValue" /\ a.nested[1].ident = "each"
    /\ a.nested[1].lit.kind = "Str"

\* The field carries builder(each = "<name>").
HasEach(f) == \E k \in DOMAIN f.attrs : IsEachAttr(f.attrs[k])
EachName(f) == f.attrs[CHOOSE k \in DOMAIN f.attrs : IsEachAttr(f.attrs[k])].nested[1].lit.value

\* The field carries a builder(..) annotation that is not builder(each = "..").
HasMalformedBuilder(f) ==
    \E k \in DOMAIN f.attrs : f.attrs[k].path = "builder" /\ ~IsEachAttr(f.attrs[k])

OuterIs(ty, name) == ty.kind = "Path" /\ Len(ty.segs) = 1 /\ ty.segs[1] = name

IsRepeated(f) == HasEach(f)
IsOptional(f) == ~HasEach(f) /\ OuterIs(f.ty, "Option")
IsRequired(f) == ~HasEach(f) /\ ~OuterIs(f.ty, "Option")

\* The method a caller uses to set the field, and what was passed to it.
SetterOf(f) == IF HasEach(f) THEN EachName(f) ELSE f.ident
Passed(f) == IF SetterOf(f) \in DOMAIN hist.log THEN hist.log[SetterOf(f)] ELSE <<>>

FieldsOf(d) == { d.fields[i] : i \in DOMAIN d.fields }
IsBuilderMacro == macro \in {"Builder", "build"}

\* The latest call was build(), and no build() before it returned Ok: what the
\* storage held at that call is what the setters had put there.
FirstBuild ==
    /\ IsBuilderMacro /\ pc \in {"running", "panicked"} /\ res.kind # "none"
    /\ hist.oks = (IF res.kind = "ok" THEN 1 ELSE 0)

\* C1: build() with a Required field never set returns an error (no panic)
\* naming a Required field that was never set (that field, when it is the only
\* one); with every Required field set, build() succeeds, an Optional field
\* never set is None and a builder(each) field never set is empty.
C1_MissingFieldOutcome ==
    (FirstBuild /\ decl.shape = "named" /\ \A f \in FieldsOf(decl) : ~HasMalformedBuilder(f)) =>
        LET missing == { f \in FieldsOf(decl) : IsRequired(f) /\ Passed(f) = <<>> }
        IN /\ missing # {} =>
                res.kind = "err" /\ \E f \in missing : res.msg_field = f.ident
           /\ missing = {} =>
                /\ res.kind = "ok"
                /\ \A f \in FieldsOf(decl) :
                      /\ (IsOptional(f) /\ Passed(f) = <<>>) =>
                            res.value[f.ident] = [shape |-> "option", items |-> <<>>]
                      /\ (IsRepeated(f) /\ Passed(f) = <<>>) =>
                            res.value[f.ident] = [shape |-> "vec", items |-> <<>>]

\* A declaration all of whose annotations are builder(each = "..") on a Vec,
\* and that asks for no two setters of the same name.
WellAnnotated(d) ==
    /\ \A f \in FieldsOf(d) :
          /\ ~HasMalformedBuilder(f)
          /\ HasEach(f) => OuterIs(f.ty, "Vec")
    /\ \A f, g \in FieldsOf(d) : SetterOf(f) = SetterOf(g) => f = g

\* What build() has to yield for a field, given what was passed to its setter.
Expected(f) ==
    IF IsRepeated(f) THEN [shape |-> "vec", items |-> Passed(f)]
    ELSE IF IsOptional(f) THEN [shape |-> "option", items |-> <<Passed(f)[Len(Passed(f))]>>]
    ELSE [shape |-> "plain", items |-> <<Passed(f)[Len(Passed(f))]>>]

\* C2: for a struct with named fields the generated builder has exactly one
\* setter per field and can be used; every setter called once, then build():
\* Ok with every field as passed (Some(v) if Optional, [v] if builder(each)).
C2_SettersRoundTrip ==
    (IsBuilderMacro /\ decl.shape = "named" /\ WellAnnotated(decl) /\ pc # "start") =>
        /\ out.kind = "code"
        /\ Len(out.setters) = Len(decl.fields)
        /\ \A i \in DOMAIN decl.fields :
              /\ out.setters[i].name = SetterOf(decl.fields[i])
              /\ out.setters[i].target = decl.fields[i].ident
        /\ Compiles(decl, out)
        /\ (FirstBuild /\ \A f \in FieldsOf(decl) : Len(Passed(f)) = 1) =>
              /\ res.kind = "ok"
              /\ \A f \in FieldsOf(decl) : res.value[f.ident] = Expected(f)

\* The builder(each)-annotated collection fields of the declaration.
EachVecFields(d) == { i \in DOMAIN d.fields : HasEach(d.fields[i]) /\ OuterIs(d.fields[i].ty, "Vec") }

C4_MalformedIsDiagnosed ==
    (macro = "Builder" /\ decl.shape = "named" /\ pc # "start"
        /\ \E f \in FieldsOf(decl) : HasMalformedBuilder(f)) =>
        out.kind = "compile_error"

\* The field carries debug = "<format-string>".
IsFormatAttr(a) == a.path = "debug" /\ a.meta = "NameValue" /\ a.lit.kind = "Str"
HasFormat(f) == \E k \in DOMAIN f.attrs : IsFormatAttr(f.attrs[k])
FormatOf(f) == f.attrs[CHOOSE k \in DOMAIN f.attrs : IsFormatAttr(f.attrs[k])].lit.value

\* Every debug annotation of every field is of the debug = ".." form.
FormatsWellFormed(d) ==
    \A f \in FieldsOf(d) : \A k \in DOMAIN f.attrs :
        f.attrs[k].path = "debug" => IsFormatAttr(f.attrs[k])

\* C5: the generated Debug impl names the struct, then has one .field(..) per
\* declared field, in declaration order, each on that field's value: through
\* its format string if it is annotated debug = "..", by default otherwise.
C5_DebugFieldsInOrder ==
    (macro = "CustomDebug" /\ decl.shape = "named" /\ FormatsWellFormed(decl) /\ pc # "start") =>
        /\ out.kind = "code"
        /\ out.name = decl.ident
        /\ Len(out.entries) = Len(decl.fields)
        /\ \A i \in DOMAIN decl.fields :
              out.entries[i] =
                  [name |-> decl.fields[i].ident,
                   fmt |-> IF HasFormat(decl.fields[i]) THEN FormatOf(decl.fields[i]) ELSE "",
                   arg |-> decl.fields[i].ident]
        /\ pc = "formatted" =>
              /\ res.name = decl.ident
              /\ Len(res.value) = Len(decl.fields)
              /\ \A i \in DOMAIN decl.fields :
                    res.value[i] =
                        [name |-> decl.fields[i].ident,
                         fmt |-> IF HasFormat(decl.fields[i]) THEN FormatOf(decl.fields[i]) ELSE "",
                         arg |-> bld[decl.fields[i].ident]]

\* C5 witness: fmt() ran on a two-field struct whose second field only is
\* annotated, with different values in the two fields.
C5_Witness ==
    /\ macro = "CustomDebug" /\ pc = "formatted" /\ Len(decl.fields) = 2
    /\ ~HasFormat(decl.fields[1]) /\ HasFormat(decl.fields[2])
    /\ res.value[1].fmt = "" /\ res.value[2].fmt = "0b{:08b}"
    /\ res.value[1].arg # res.value[2].arg

RECURSIVE Mentions(_, _)
\* The type names the parameter t, at its head or in a type argument.
Mentions(ty, t) ==
    /\ ty.kind = "Path"
    /\ \/ ty.segs[1] = t
       \/ \E k \in DOMAIN ty.args : Mentions(ty.args[k], t)

OnlyInPhantomData(t, d) ==
    /\ \E f \in FieldsOf(d) : Mentions(f.ty, t)
    /\ \A f \in FieldsOf(d) : Mentions(f.ty, t) => OuterIs(f.ty, "PhantomData")

IsPlainFieldType(t, d) == \E f \in FieldsOf(d) : f.ty = Plain(<<t>>)

\* The declaration carries debug(bound = "<predicate>").
IsBoundAttr(a) ==
    /\ a.path = "debug" /\ a.meta = "List" /\ Len(a.nested) = 1
    /\ a.nested[1].kind = "NameValue" /\ a.nested[1].ident = "bound"
    /\ a.nested[1].lit.kind = "Str"
HasCustomBound(d) == \E k \in DOMAIN d.attrs : IsBoundAttr(d.attrs[k])
CustomBoundOf(d) == d.attrs[CHOOSE k \in DOMAIN d.attrs : IsBoundAttr(d.attrs[k])].nested[1].lit.value

\* C6: without a custom bound, a type parameter used only inside PhantomData
\* gets no Debug bound, and every type parameter that is the type of a plain
\* field gets one (also when it is inside a PhantomData field as well).
C6_PhantomAndPlainBounds ==
    (macro = "CustomDebug" /\ out.kind = "code" /\ ~HasCustomBound(decl)) =>
        \A g \in DOMAIN decl.generics :
            LET t == decl.generics[g]
            IN /\ OnlyInPhantomData(t, decl) => t \notin out.bounds
               /\ IsPlainFieldType(t, decl) => t \in out.bounds

\* C7: with debug(bound = "<predicate>") on the declaration the where clause
\* gets exactly that predicate and nothing is inferred (no Debug bound on a
\* parameter, no predicate for an associated type); without it, no attribute
\* of the declaration supplies a custom bound.
C7_CustomBoundReplacesInference ==
    (macro = "CustomDebug" /\ out.kind = "code") =>
        /\ HasCustomBound(decl) =>
              /\ out.custom_preds = { CustomBoundOf(decl) }
              /\ out.bounds = {}
              /\ out.assoc_preds = {}
        /\ ~HasCustomBound(decl) => out.custom_preds = {}

\* C8: for an enum, a union, a tuple struct or a unit struct the builder
\* generators return the empty fragment without panicking, and the Debug
\* generator does not panic.
C8_UnsupportedShapeIsNoOp ==
    (decl.shape # "named" /\ pc # "start") =>
        /\ IsBuilderMacro => out.kind = "empty"
        /\ macro = "CustomDebug" => out.kind # "panic"

\* C9: a field with builder(each = "..") whose type is an Option<..> is
\* generated as a RepeatedCollection throughout: initialised empty, stored
\* under its declared type, set by the appending setter named by the
\* annotation, never checked for presence and drained by build().
C9_AnnotationDominates ==
    (macro = "Builder" /\ out.kind = "code") =>
        \A i \in DOMAIN decl.fields :
            LET f == decl.fields[i]
            IN (HasEach(f) /\ OuterIs(f.ty, "Option")) =>
                  /\ out.initializer[i].init = "new"
                  /\ out.fields[i].ty = f.ty
                  /\ out.setters[i].name = EachName(f)
                  /\ out.setters[i].body = "push"
                  /\ out.assigns[i].expr = "drain_collect"
                  /\ \A c \in DOMAIN out.checks : out.checks[c].ident # f.ident

\* The field carries a builder(..) annotation.
Annotated(f) == \E k \in DOMAIN f.attrs : f.attrs[k].path = "builder"

NoCallYet == \A n \in DOMAIN hist.log : hist.log[n] = <<>>

IsAssocOf(ty, t) == ty.kind = "Path" /\ Len(ty.segs) >= 2 /\ ty.segs[1] = t

\* The associated types of t the declaration's fields reference, directly or
\* as a generic argument.
AssocRefs(t, d) ==
    { f.ty : f \in { g \in FieldsOf(d) : IsAssocOf(g.ty, t) } }
    \cup UNION { { f.ty.args[k] : k \in { j \in DOMAIN f.ty.args : IsAssocOf(f.ty.args[j], t) } }
                 : f \in { g \in FieldsOf(d) : g.ty.kind = "Path" } }

\* C11: with no attribute on the declaration, the where clause gets a
\* `<associated type>: Debug` predicate for every associated type of a type
\* parameter that a field references (directly or as a generic argument), one
\* per distinct associated type, and a parameter with such a reference gets
\* the Debug bound itself exactly when it is also the type of a plain field.
C11_AssociatedTypeBounds ==
    (macro = "CustomDebug" /\ out.kind = "code" /\ decl.attrs = <<>>) =>
        \A g \in DOMAIN decl.generics :
            LET t == decl.generics[g]
            IN /\ AssocRefs(t, decl) \subseteq out.assoc_preds
               /\ AssocRefs(t, decl) # {} =>
                     (t \in out.bounds <=> IsPlainFieldType(t, decl))

\* The field's type has a first generic argument.
HasInnerType(f) == f.ty.kind = "Path" /\ f.ty.angle /\ Len(f.ty.args) >= 1

\* C12: the setter generated for an Optional or builder(each) field takes the
\* first generic argument of the declared type, whole (Option<Option<T>> gives
\* Option<T>, Option<Vec<String>> gives Vec<String>), and an Optional field is
\* stored as Option<that whole inner type>.
C12_SetterTakesInnerType ==
    (IsBuilderMacro /\ decl.shape = "named" /\ out.kind = "code") =>
        \A f \in FieldsOf(decl) :
            ((IsOptional(f) \/ IsRepeated(f)) /\ HasInnerType(f)) =>
                /\ \A j \in DOMAIN out.setters :
                      out.setters[j].target = f.ident => out.setters[j].ty = f.ty.args[1]
                /\ IsOptional(f) =>
                      \A j \in DOMAIN out.fields :
                          out.fields[j].ident = f.ident =>
                              out.fields[j].ty = OptionOf(f.ty.args[1])

\* What had been passed to the field's setter when build() last returned Err.
KeptOf(f) == IF SetterOf(f) \in DOMAIN hist.kept THEN hist.kept[SetterOf(f)] ELSE <<>>

\* What the storage of the field holds, and what build() yields for it, given
\* what was passed to its setter since builder().
Stored(f) ==
    IF IsRepeated(f) THEN [shape |-> "vec", items |-> Passed(f)]
    ELSE IF Passed(f) = <<>> THEN None
    ELSE Some(Passed(f)[Len(Passed(f))])
Yielded(f) ==
    IF IsRepeated(f) THEN [shape |-> "vec", items |-> Passed(f)]
    ELSE IF IsOptional(f) THEN [shape |-> "option", items |-> Stored(f).items]
    ELSE [shape |-> "plain", items |-> Stored(f).items]

\* C13: on the builder of the derive, build() with a Required field unset
\* returns the error and leaves every storage field as the setters left it;
\* after such a failed build(), setting the missing fields and calling build()
\* again succeeds and yields everything set so far, the elements appended to a
\* builder(each) collection before the failed call included, in call order.
C13_FailedBuildKeepsStorage ==
    (macro = "Builder" /\ decl.shape = "named" /\ pc = "running" /\ res.kind # "none"
        /\ \A f \in FieldsOf(decl) : ~HasMalformedBuilder(f)) =>
        /\ (hist.oks = 0 /\ \E f \in FieldsOf(decl) : IsRequired(f) /\ Passed(f) = <<>>) =>
              res.kind = "err"
        /\ (hist.oks = 0 /\ res.kind = "err") =>
              /\ hist.kept = hist.log
              /\ \A f \in FieldsOf(decl) : bld[f.ident] = Stored(f)
        /\ (hist.oks = 1 /\ res.kind = "ok" /\ hist.kept # <<>>) =>
              \A f \in FieldsOf(decl) :
                  /\ res.value[f.ident] = Yielded(f)
                  /\ IsRepeated(f) =>
                        SubSeq(res.value[f.ident].items, 1, Len(KeptOf(f))) = KeptOf(f)

\* C13 witness: an element was appended, build() failed for a Required field
\* not yet set, that field was set, and build() returned Ok with the element.
C13_Witness ==
    /\ macro = "Builder" /\ pc = "running" /\ res.kind = "ok" /\ hist.oks = 1
    /\ \E f, g \in FieldsOf(decl) :
          /\ IsRepeated(f) /\ KeptOf(f) = <<"x">> /\ res.value[f.ident].items = <<"x">>
          /\ IsRequired(g) /\ KeptOf(g) = <<>> /\ Passed(g) # <<>>
          /\ res.value[g.ident].items = Passed(g)

====
